---------------------------- MODULE Spec2Model ----------------------------
(***************************************************************************)
(* A model of the swingdash comparison pipeline: sample balancing          *)
(* (standardise.py), the delta table (analytics.py), side classification,  *)
(* the IQR filter and units-row detection (cleaning.py).                   *)
(*                                                                         *)
(* Data frames are sequences of rows.  A missing value (NaN / None) is the *)
(* token NaN.  Each family of operations has its own specification; the    *)
(* variables of the other families stay at their initial values.           *)
(***************************************************************************)
EXTENDS Integers, Sequences, FiniteSets, TLC

VARIABLES
    pc,          \* position of the caller: "start", then one value per finished call
    old_df,      \* balance_samples argument old_df
    new_df,      \* balance_samples argument new_df
    enable,      \* balance_samples argument enable
    mode,        \* balance_samples argument mode
    seed,        \* balance_samples argument seed
    balanced,    \* result of the first balance_samples call: [old, new]
    rebalanced,  \* result of a second call with the same arguments
    np_random,   \* state of numpy's process-wide generator np.random
    old_desc,    \* compare_sessions argument old_desc
    new_desc,    \* compare_sessions argument new_desc
    comparison,  \* result of compare_sessions
    side_df,     \* classify_side argument df
    primary_col, \* classify_side argument primary_col
    dead_zone,   \* classify_side argument dead_zone_deg, in half degrees
    handed,      \* classify_side argument handed
    invert,      \* classify_side argument invert
    side,        \* result of classify_side: one label per row
    iqr_df,      \* iqr_filter argument df
    iqr_cols,    \* iqr_filter argument cols
    whisker,     \* iqr_filter argument whisker of the first call, in halves
    whisker2,    \* whisker of a second call on the same frame, in halves
    kept,        \* result of the first iqr_filter call
    kept2,       \* result of the second iqr_filter call
    raw,         \* drop_units_row_if_present argument df
    cleaned,     \* result of drop_units_row_if_present
    pre_raw,       \* preprocess argument df: the frame read from the CSV
    session_label, \* preprocess argument session_label
    preprocessed,  \* result of preprocess
    group_df,    \* assign_group argument df
    cs_low,      \* assign_group argument cs_low
    spin_low,    \* assign_group argument spin_low
    carry_low,   \* assign_group argument carry_low
    dev_col,     \* assign_group argument dev_col ("" for None)
    dev_high,    \* assign_group argument dev_high
    grouped,     \* result of assign_group: the Group label of each row
    run_old,       \* _summarise_sessions argument old_df
    run_new,       \* _summarise_sessions argument new_df
    config,        \* _summarise_sessions argument config
    old_processed, \* _apply_processing(old_df, config)
    new_processed, \* _apply_processing(new_df, config)
    balanced_old,  \* first result of balance_samples in the run
    balanced_new,  \* second result of balance_samples in the run
    exception      \* the exception that ended the run ("" for none)

balance_vars == <<old_df, new_df, enable, mode, seed, balanced, rebalanced, np_random>>

compare_vars == <<old_desc, new_desc, comparison>>

side_vars == <<side_df, primary_col, dead_zone, handed, invert, side>>

iqr_vars == <<iqr_df, iqr_cols, whisker, whisker2, kept, kept2>>

units_vars == <<raw, cleaned>>

pre_vars == <<pre_raw, session_label, preprocessed>>

group_vars == <<group_df, cs_low, spin_low, carry_low, dev_col, dev_high, grouped>>

run_vars == <<run_old, run_new, config, old_processed, new_processed,
              balanced_old, balanced_new, exception>>

vars == <<pc, balance_vars, compare_vars, side_vars, iqr_vars, units_vars, pre_vars, group_vars, run_vars>>

\* a missing label of a categorical column
NaN == "NaN"

\* a floating point value: a number of the model's grid, or missing (nan)
nan == [nan |-> TRUE, v |-> 0]

Num(x) == [nan |-> FALSE, v |-> x]

isna(x) == x.nan

None == [none |-> TRUE]

Min(a, b) == IF a <= b THEN a ELSE b

(***************************************************************************)
(* Bounds                                                                  *)
(***************************************************************************)
\* total number of rows of the two sessions handed to balance_samples
MaxRows == 5

\* number of metrics in one descriptive summary
MaxMetrics == 3

\* deviation angles range over -MaxDev..MaxDev half degrees (and missing)
MaxDev == 5

\* number of rows of the frame handed to classify_side
MaxSideRows == 2

\* number of rows of the frame handed to iqr_filter
MaxIqrRows == 4

\* number of rows of a raw frame
MaxRawRows == 2

(***************************************************************************)
(* standardise.py                                                          *)
(***************************************************************************)
\* the stratification columns of balance_samples
StratCols == {"Club Type", "Side"}

\* values a stratification column takes in the model: one label, or missing
CellVals(c) == IF c = "Club Type" THEN {"Driver", NaN} ELSE {"Left", NaN}

\* the mode strings: the two the code knows and the one the configuration
\* contract names
Modes == {"Simple", "Stratified: Club Type + Side", "Stratified"}

Seeds == {0, 42}

\* A frame is [columns, rows]; a row is [idx, cell]: idx is the row's index
\* label in the frame it was loaded into (its identity), cell its values in
\* the stratification columns it has.  Only the stratification columns are
\* represented; a frame is empty when it has no rows.
Cells(cols) ==
    {f \in [cols -> UNION {CellVals(c) : c \in StratCols}] : \A c \in cols : f[c] \in CellVals(c)}

Frame(cols, f) ==
    [columns |-> cols, rows |-> [i \in DOMAIN f |-> [idx |-> i, cell |-> f[i]]]]

len(df) == Len(df.rows)

empty(df) == Len(df.rows) = 0

\* df.iloc[0:0]
iloc00(df) == [df EXCEPT !.rows = <<>>]

\* numpy's generator is represented by a generator of sixteen states: one
\* step of it, and the state a seed sets
rng_next(st) == (5 * st + 3) % 16

rng_seed(s) == s % 16

\* pandas.core.common.random_state: an integer seed makes a private
\* RandomState(seed); shared says whether the generator is np.random itself
random_state_global(s, g) == [st |-> g, shared |-> TRUE]

random_state(s, g) == [st |-> rng_seed(s), shared |-> FALSE]

\* RandomState.permutation(n): Fisher-Yates from the last position down,
\* one draw per position; returns the permutation and the generator state
RECURSIVE shuffle(_, _, _)
shuffle(x, i, st) ==
    IF i < 2 THEN [perm |-> x, st |-> st]
    ELSE LET st2 == rng_next(st)
             j   == ((st2 \div 2) % i) + 1
             y   == [x EXCEPT ![i] = x[j], ![j] = x[i]]
         IN  shuffle(y, i - 1, st2)

permutation(n, st) == shuffle([i \in 1..n |-> i], n, st)

\* replace=True: every draw is made from the whole frame, here the same row
sample_replace(df, n, s, g) ==
    LET rs == random_state(s, g)
        p  == permutation(len(df), rs.st)
    IN  [df |-> [df EXCEPT !.rows = [i \in 1..n |-> df.rows[p.perm[1]]]],
         g  |-> IF rs.shared THEN p.st ELSE g]

\* df.sample(n=n, random_state=seed, replace=False): the first n rows of a
\* permutation of df; g is np.random before the call, .g after it
sample(df, n, s, g) ==
    LET rs == random_state(s, g)
        p  == permutation(len(df), rs.st)
    IN  [df |-> [df EXCEPT !.rows = [i \in 1..n |-> df.rows[p.perm[i]]]],
         g  |-> IF rs.shared THEN p.st ELSE g]

_sample_df_all(df, n, s, g) == [df |-> df, g |-> g]

_sample_df(df, n, s, g) ==
    IF n <= 0 \/ empty(df) THEN [df |-> iloc00(df), g |-> g]
    ELSE IF n >= len(df) THEN [df |-> df, g |-> g]
    ELSE sample(df, n, s, g)

\* the key of a row: its values in the columns of by
KeyOf(row, by) == [c \in by |-> row.cell[c]]

\* df[by].drop_duplicates() over the concatenation: the distinct keys in
\* order of first appearance (drop_duplicates takes missing equal to missing)
RECURSIVE drop_duplicates(_, _)
drop_duplicates(keys, seen) ==
    IF keys = <<>> THEN <<>>
    ELSE IF Head(keys) \in seen THEN drop_duplicates(Tail(keys), seen)
    ELSE <<Head(keys)>> \o drop_duplicates(Tail(keys), seen \cup {Head(keys)})

unique_keys(o, n, by) ==
    drop_duplicates([i \in 1..len(o) |-> KeyOf(o.rows[i], by)]
                    \o [i \in 1..len(n) |-> KeyOf(n.rows[i], by)], {})

\* (df[col] == key[col]) | (isna(df[col]) & isna(key[col])) for one cell;
\* == is never true of a missing value
CellMatchExact(v, k) == v # NaN /\ k # NaN /\ v = k

CellMatch(v, k) == (v # NaN /\ k # NaN /\ v = k) \/ (v = NaN /\ k = NaN)

\* the mask of one key: the AND over by of the cell matches
RowMatch(row, key, by) == \A c \in by : CellMatch(row.cell[c], key[c])

\* df[mask]: the rows the mask holds of, in the frame's order
RECURSIVE SelectRows(_, _, _)
SelectRows(rows, key, by) ==
    IF rows = <<>> THEN <<>>
    ELSE (IF RowMatch(Head(rows), key, by) THEN <<Head(rows)>> ELSE <<>>)
         \o SelectRows(Tail(rows), key, by)

group(df, key, by) == [df EXCEPT !.rows = SelectRows(df.rows, key, by)]

\* the loop over unique_keys: acc is [old_parts, new_parts, g], the parts
\* already concatenated
RECURSIVE stratified_loop(_, _, _, _, _, _)
stratified_loop(keys, o, n, by, s, acc) ==
    IF keys = <<>> THEN acc
    ELSE LET g_old  == group(o, Head(keys), by)
             g_new  == group(n, Head(keys), by)
             n_take == Min(len(g_old), len(g_new))
             so     == _sample_df(g_old, n_take, s, acc.g)
             sn     == _sample_df(g_new, n_take, s, so.g)
             acc2   == IF n_take > 0
                       THEN [old_parts |-> acc.old_parts \o so.df.rows,
                             new_parts |-> acc.new_parts \o sn.df.rows,
                             g |-> sn.g]
                       ELSE acc
         IN  stratified_loop(Tail(keys), o, n, by, s, acc2)

\* the loop entered without the "if not by" guard
_stratified_min_pair_unguarded(o, n, by, s, g) ==
    LET r == stratified_loop(unique_keys(o, n, by), o, n, by, s,
                             [old_parts |-> <<>>, new_parts |-> <<>>, g |-> g])
    IN  [old |-> [o EXCEPT !.rows = r.old_parts],
         new |-> [n EXCEPT !.rows = r.new_parts],
         g   |-> r.g]

_stratified_min_pair(o, n, by, s, g) ==
    IF by = {} THEN [old |-> o, new |-> n, g |-> g]
    ELSE LET r == stratified_loop(unique_keys(o, n, by), o, n, by, s,
                                  [old_parts |-> <<>>, new_parts |-> <<>>, g |-> g])
         IN  [old |-> [o EXCEPT !.rows = r.old_parts],
              new |-> [n EXCEPT !.rows = r.new_parts],
              g   |-> r.g]

\* the columns of ["Club Type", "Side"] present in both frames
by_cols(o, n) == {c \in StratCols : c \in o.columns /\ c \in n.columns}

balance_samples(o, n, en, m, s, g) ==
    IF ~en THEN [old |-> o, new |-> n, g |-> g]
    ELSE IF empty(o) \/ empty(n) THEN [old |-> o, new |-> n, g |-> g]
    ELSE IF m = "Simple"
         THEN LET k  == Min(len(o), len(n))
                  so == _sample_df(o, k, s, g)
                  sn == _sample_df(n, k, s, so.g)
              IN  [old |-> so.df, new |-> sn.df, g |-> sn.g]
    ELSE IF m = "Stratified: Club Type + Side"
         THEN _stratified_min_pair(o, n, by_cols(o, n), s, g)
    ELSE [old |-> o, new |-> n, g |-> g]

(***************************************************************************)
(* config.py and analytics.py                                              *)
(***************************************************************************)
BETTER_DIRECTION ==
    [m \in {"Club Speed", "Ball Speed", "Smash Factor", "Launch Angle", "Spin Rate",
            "Apex Height", "Carry Distance", "Total Distance",
            "Carry Deviation Distance", "Total Deviation Distance", "Attack Angle",
            "Club Path", "Club Face", "Face to Path", "Spin Axis"} |->
        IF m \in {"Club Speed", "Ball Speed", "Smash Factor", "Carry Distance",
                  "Total Distance"} THEN 1
        ELSE IF m \in {"Carry Deviation Distance", "Total Deviation Distance"} THEN -1
        ELSE 0]

\* the metrics a summary of the model may have, in the order describe_session
\* lists them: one of each polarity and one outside the catalogue
SummaryMetrics == <<"Club Speed", "Spin Rate", "Carry Deviation Distance", "|Carry Dev|">>

\* the means of the model: below, at and above zero, or missing
Means == {Num(-1), Num(0), Num(1), nan}

\* a table (DataFrame) is [none, rows]; Null is Python's None
Null == [none |-> TRUE, rows |-> <<>>]

Table(rows) == [none |-> FALSE, rows |-> rows]

\* A summary is a table of rows [Metric, mean] with distinct metrics in
\* the order of SummaryMetrics; means are integers on a grid much coarser
\* than 1e-9 (so |mean| > 1e-9 is mean # 0), or missing.  The median column
\* is carried through the merge untouched and is left out.
Summaries ==
    UNION { { Table([i \in 1..Cardinality(S) |->
                 [Metric |-> SummaryMetrics[CHOOSE k \in S :
                                 Cardinality({j \in S : j < k}) = i - 1],
                  mean   |-> f[CHOOSE k \in S : Cardinality({j \in S : j < k}) = i - 1]]]) :
              f \in [S -> Means] } :
            S \in {T \in SUBSET (1..Len(SummaryMetrics)) : Cardinality(T) <= MaxMetrics} }

sign(x) == IF x > 0 THEN 1 ELSE IF x < 0 THEN -1 ELSE 0

Abs(x) == IF x < 0 THEN -x ELSE x

\* mean_new - mean_old; missing when either is
minus(a, b) == IF isna(a) \/ isna(b) THEN nan ELSE Num(a.v - b.v)

\* how="left": a metric of the left frame without a partner keeps a row
RECURSIVE merge_left(_, _)
merge_left(l, r) ==
    IF l = <<>> THEN <<>>
    ELSE LET hits == SelectSeq(r, LAMBDA x : x.Metric = Head(l).Metric)
         IN  (IF hits = <<>>
              THEN << [Metric |-> Head(l).Metric, mean_old |-> Head(l).mean,
                       mean_new |-> nan] >>
              ELSE [i \in 1..Len(hits) |->
                      [Metric |-> Head(l).Metric, mean_old |-> Head(l).mean,
                       mean_new |-> hits[i].mean]])
             \o merge_left(Tail(l), r)

\* pd.merge(..., on="Metric", how="inner"): one row per pair of rows with the
\* same metric, in the order of the left frame
RECURSIVE merge(_, _)
merge(l, r) ==
    IF l = <<>> THEN <<>>
    ELSE LET hits == SelectSeq(r, LAMBDA x : x.Metric = Head(l).Metric)
         IN  [i \in 1..Len(hits) |->
                [Metric |-> Head(l).Metric, mean_old |-> Head(l).mean,
                 mean_new |-> hits[i].mean]]
             \o merge(Tail(l), r)

\* np.where(|mean_old| > 1e-9, 100 * delta / mean_old, nan): the quotient is
\* kept as a fraction num/den with den > 0
pct_nan == [nan |-> TRUE, num |-> 0, den |-> 1]

pct_change(mean_old, delta) ==
    IF isna(mean_old) \/ mean_old.v = 0 \/ isna(delta) THEN pct_nan
    ELSE [nan |-> FALSE, num |-> 100 * delta.v * sign(mean_old.v),
          den |-> Abs(mean_old.v)]

_improv_abs(Metric, delta) ==
    LET d == IF Metric \in DOMAIN BETTER_DIRECTION THEN BETTER_DIRECTION[Metric] ELSE 0
    IN  IF d = 0 \/ isna(delta) THEN nan ELSE Num(sign(delta.v) * Abs(d))

\* BETTER_DIRECTION.get(Metric, 0), then sign(delta) * d unless d is 0 or
\* delta is not finite
_improv(Metric, delta) ==
    LET d == IF Metric \in DOMAIN BETTER_DIRECTION THEN BETTER_DIRECTION[Metric] ELSE 0
    IN  IF d = 0 \/ isna(delta) THEN nan ELSE Num(sign(delta.v) * d)

\* order of two pct_change values
PctLess(p, q) == p.num * q.den < q.num * p.den

\* sort_values(by=["improvement_sign", "pct_change"], ascending=[False, False])
\* with the default na_position="last": a sorts strictly before b
SortsBeforeNaFirst(a, b) ==
    LET s1 == a.improvement_sign
        s2 == b.improvement_sign
        p1 == a.pct_change
        p2 == b.pct_change
    IN  \/ isna(s1) /\ ~isna(s2)
        \/ ~isna(s1) /\ ~isna(s2) /\ s1.v > s2.v
        \/ /\ s1 = s2
           /\ \/ isna(p1) /\ ~isna(p2)
              \/ ~isna(p1) /\ ~isna(p2) /\ PctLess(p2, p1)

SortsBefore(a, b) ==
    LET s1 == a.improvement_sign
        s2 == b.improvement_sign
        p1 == a.pct_change
        p2 == b.pct_change
    IN  \/ ~isna(s1) /\ isna(s2)
        \/ ~isna(s1) /\ ~isna(s2) /\ s1.v > s2.v
        \/ /\ s1 = s2
           /\ \/ ~isna(p1) /\ isna(p2)
              \/ ~isna(p1) /\ ~isna(p2) /\ PctLess(p2, p1)

\* the sort is stable: a row goes in front of the first row it sorts
\* strictly before
RECURSIVE insert_row(_, _)
insert_row(sorted, r) ==
    IF sorted = <<>> THEN <<r>>
    ELSE IF SortsBefore(r, Head(sorted)) THEN <<r>> \o sorted
    ELSE <<Head(sorted)>> \o insert_row(Tail(sorted), r)

RECURSIVE sort_values(_)
sort_values(m) ==
    IF m = <<>> THEN <<>>
    ELSE insert_row(sort_values(SubSeq(m, 1, Len(m) - 1)), m[Len(m)])

\* the rows of the merge with delta, pct_change and improvement_sign added
with_deltas(m) ==
    [i \in 1..Len(m) |->
        LET delta == minus(m[i].mean_new, m[i].mean_old)
        IN  [Metric |-> m[i].Metric, mean_old |-> m[i].mean_old,
             mean_new |-> m[i].mean_new, delta |-> delta,
             pct_change |-> pct_change(m[i].mean_old, delta),
             improvement_sign |-> _improv(m[i].Metric, delta)]]

\* pd.DataFrame() is the table without rows
compare_sessions(o, n) ==
    IF o.none \/ n.none THEN Table(<<>>)
    ELSE IF o.rows = <<>> \/ n.rows = <<>> THEN Table(<<>>)
    ELSE LET m == merge(o.rows, n.rows)
         IN  IF m = <<>> THEN Table(<<>>) ELSE Table(sort_values(with_deltas(m)))

(***************************************************************************)
(* cleaning.py: side classification.  Angles and the dead zone are counted *)
(* in half degrees, the step of the dead-zone slider.                      *)
(***************************************************************************)
DevCols == {"Carry Deviation Angle", "Total Deviation Angle"}

Handedness == {"Right-handed", "Left-handed"}

\* the dead zones the slider offers: 0.0 to 10.0 degrees in steps of 0.5
DeadZones == 0..20

Angles == {Num(x) : x \in -MaxDev..MaxDev} \cup {nan}

\* a frame of the model has the carry deviation angle column or no
\* deviation column at all; a row is its values in the columns it has
SideColumnSets == {{}, {"Carry Deviation Angle"}}

neg(x) == IF isna(x) THEN nan ELSE Num(-x.v)

\* an absent column gives a series of missing values; the column is numeric
\* already, so pd.to_numeric leaves it alone
_signed_series(df, col, inv) ==
    IF col \notin df.columns THEN [i \in 1..Len(df.rows) |-> nan]
    ELSE LET s == [i \in 1..Len(df.rows) |-> df.rows[i][col]]
         IN  IF inv THEN [i \in 1..Len(s) |-> neg(s[i])] ELSE s

\* np.where(s.abs() <= dead_zone, "Straight", np.where(s > 0, "Right", "Left"))
\* for one value: a comparison with a missing value is false
side_of_strict(x, dz) ==
    IF ~isna(x) /\ Abs(x.v) < dz THEN "Straight"
    ELSE IF ~isna(x) /\ x.v > 0 THEN "Right"
    ELSE "Left"

side_of(x, dz) ==
    IF ~isna(x) /\ Abs(x.v) <= dz THEN "Straight"
    ELSE IF ~isna(x) /\ x.v > 0 THEN "Right"
    ELSE "Left"

\* the swap for handed == "Left-handed"
swap_side(label) ==
    IF label = "Right" THEN "Left" ELSE IF label = "Left" THEN "Right" ELSE label

\* pd.Categorical(side, categories=["Left", "Straight", "Right"]): a value
\* outside the categories becomes missing
Categorical(label) == IF label \in {"Left", "Straight", "Right"} THEN label ELSE NaN

classify_side(df, col, dz, hd, inv) ==
    LET s == _signed_series(df, col, inv)
    IN  [i \in 1..Len(s) |->
            LET label == side_of(s[i], dz)
            IN  Categorical(IF hd = "Left-handed" THEN swap_side(label) ELSE label)]

(***************************************************************************)
(* cleaning.py: the IQR filter.  Whiskers are counted in halves; a         *)
(* quartile is kept as four times its value, which is an integer for       *)
(* integer data under linear interpolation.                                *)
(***************************************************************************)
\* the metric columns of the frames of the model
IqrCols == {"Carry Distance", "Spin Rate"}

\* the column lists handed to iqr_filter
IqrColLists == {<<"Carry Distance">>, <<"Spin Rate">>, <<"Carry Distance", "Spin Rate">>}

\* the whiskers of the model: 0.5, 1.0 and the default 3.0
Whiskers == {1, 2, 6}

\* the values of the model: three distances or missing, two spin rates
IqrVals(c) ==
    IF c = "Carry Distance" THEN {Num(0), Num(1), Num(2), nan}
    ELSE {Num(0), Num(1)}

IqrRows(cols) ==
    {f \in [cols -> UNION {IqrVals(c) : c \in IqrCols}] : \A c \in cols : f[c] \in IqrVals(c)}

\* a row is [idx, cell]: its index label and its values
IqrFrame(cols, f) ==
    [columns |-> cols, rows |-> [i \in DOMAIN f |-> [idx |-> i, cell |-> f[i]]]]

\* the values of a column that are not missing, in ascending order
RECURSIVE insert_sorted(_, _)
insert_sorted(sorted, x) ==
    IF sorted = <<>> THEN <<x>>
    ELSE IF x <= Head(sorted) THEN <<x>> \o sorted
    ELSE <<Head(sorted)>> \o insert_sorted(Tail(sorted), x)

RECURSIVE sorted_values(_, _)
sorted_values(rows, c) ==
    IF rows = <<>> THEN <<>>
    ELSE LET rest == sorted_values(Tail(rows), c)
             x    == Head(rows).cell[c]
         IN  IF isna(x) THEN rest ELSE insert_sorted(rest, x.v)

\* Series.quantile(k/4), times four: linear interpolation between the order
\* statistics around position (n-1)*k/4; missing values are skipped and a
\* column without values has a missing quantile
quantile4(df, c, k) ==
    LET xs == sorted_values(df.rows, c)
        n  == Len(xs)
    IN  IF n = 0 THEN nan
        ELSE LET lo   == ((n - 1) * k) \div 4
                 frac == ((n - 1) * k) % 4
             IN  IF frac = 0 THEN Num(4 * xs[lo + 1])
                 ELSE Num(4 * xs[lo + 1] + frac * (xs[lo + 2] - xs[lo + 1]))

\* lo, hi = q1 - whisker*iqr, q3 + whisker*iqr, times eight (q1, q3 and iqr
\* are times four, the whisker is in halves)
fence_lo_plus(q1, q3, iqr, w) == [lo |-> 2 * q1 + w * iqr, hi |-> 2 * q3 + w * iqr]

fence(q1, q3, iqr, w) == [lo |-> 2 * q1 - w * iqr, hi |-> 2 * q3 + w * iqr]

\* x.isna() | ((x >= lo) & (x <= hi)) for one value
in_fence_strict(x, f) == isna(x) \/ (8 * x.v > f.lo /\ 8 * x.v < f.hi)

in_fence(x, f) == isna(x) \/ (8 * x.v >= f.lo /\ 8 * x.v <= f.hi)

\* the loop over cols: mask is the set of positions still kept
RECURSIVE iqr_mask(_, _, _, _)
iqr_mask(df, cols, w, mask) ==
    IF cols = <<>> THEN mask
    ELSE LET c == Head(cols)
         IN  IF c \notin df.columns THEN iqr_mask(df, Tail(cols), w, mask)
             ELSE LET q1  == quantile4(df, c, 1)
                      q3  == quantile4(df, c, 3)
                      iqr == minus(q3, q1)
                  IN  IF ~isna(iqr) /\ iqr.v > 0
                      THEN LET f == fence(q1.v, q3.v, iqr.v, w)
                           IN  iqr_mask(df, Tail(cols), w,
                                   {i \in mask : in_fence(df.rows[i].cell[c], f)})
                      ELSE iqr_mask(df, Tail(cols), w, mask)

\* dfc[mask]: the kept rows in the frame's order
iqr_filter(df, cols, w) ==
    LET mask == iqr_mask(df, cols, w, 1..Len(df.rows))
    IN  [df EXCEPT !.rows = SelectSeq(df.rows, LAMBDA r : r.idx \in mask)]

(***************************************************************************)
(* cleaning.py: the units row.  A raw cell is its text, a sequence of      *)
(* characters.                                                             *)
(***************************************************************************)
CANDIDATE_NUMERIC ==
    {"Club Speed", "Attack Angle", "Club Path", "Club Face", "Face to Path",
     "Ball Speed", "Smash Factor", "Launch Angle", "Launch Direction",
     "Backspin", "Sidespin", "Spin Rate", "Spin Rate Type", "Spin Axis",
     "Apex Height", "Carry Distance", "Carry Deviation Angle",
     "Carry Deviation Distance", "Total Distance", "Total Deviation Angle",
     "Total Deviation Distance", "Air Density", "Temperature", "Air Pressure",
     "Relative Humidity"}

\* the list drop_units_row_if_present looks at
units_candidate_cols ==
    {"Club Speed", "Attack Angle", "Launch Angle", "Spin Rate", "Apex Height",
     "Carry Distance", "Total Distance", "Air Density", "Temperature",
     "Air Pressure", "Relative Humidity"}

\* the columns of the raw frames of the model: one of the list above, one
\* of CANDIDATE_NUMERIC only, and one of neither
RawCols == {"Club Speed", "Ball Speed", "Club Type"}

\* the cell texts of the model: "90", "[mph]", " [deg] " and "9[m]"
RawTexts ==
    { <<"9", "0">>, <<"[", "m", "p", "h", "]">>,
      <<" ", "[", "d", "e", "g", "]", " ">>, <<"9", "[", "m", "]">> }

\* \s* at either end of the text
RECURSIVE lstrip(_)
lstrip(t) == IF t # <<>> /\ Head(t) = " " THEN lstrip(Tail(t)) ELSE t

RECURSIVE rstrip(_)
rstrip(t) == IF t # <<>> /\ t[Len(t)] = " " THEN rstrip(SubSeq(t, 1, Len(t) - 1)) ELSE t

\* str.contains(r"^\s*\[.*\]\s*$"): after the leading blanks a "[", and a
\* later "]" with only blanks after it
matches_units(t) ==
    LET u == rstrip(lstrip(t))
    IN  Len(u) >= 2 /\ u[1] = "[" /\ u[Len(u)] = "]"

\* df.iloc[1:].reset_index(drop=True); idx stays the row's line in the raw
\* frame
drop_units_row_if_present(df) ==
    IF Len(df.rows) = 0 THEN df
    ELSE LET candidate_cols == {c \in units_candidate_cols : c \in df.columns}
         IN  IF candidate_cols = {} THEN df
             ELSE IF \E c \in candidate_cols : matches_units(df.rows[1].cell[c])
                  THEN [df EXCEPT !.rows = Tail(df.rows)]
                  ELSE df

(***************************************************************************)
(* cleaning.py: preprocess.  A cell of the frame read from the CSV is its  *)
(* text; the empty text is a blank field, which the frame holds as NaN.    *)
(***************************************************************************)
\* the unit tokens in the order the alternation tries them; "degrees?",
\* "yds?" and "yards?" are greedy, the longer form first
UNIT_PATTERNS ==
    << <<"m", "p", "h">>, <<"k", "m", "/", "h">>, <<"k", "p", "h">>,
       <<"m", "/", "s">>, <<"r", "p", "m">>,
       <<"°">>, <<"d", "e", "g">>,
       <<"d", "e", "g", "r", "e", "e", "s">>, <<"d", "e", "g", "r", "e", "e">>,
       <<"y", "d", "s">>, <<"y", "d">>,
       <<"y", "a", "r", "d", "s">>, <<"y", "a", "r", "d">>,
       <<"m">>, <<"c", "m">>,
       <<"k", "p", "a">>, <<"p", "a">>, <<"b", "a", "r">>, <<"p", "s", "i">>,
       <<"%">>, <<",">> >>

Upper == <<"A", "B", "C", "D", "E", "F", "G", "H", "I", "J", "K", "L", "M",
           "N", "O", "P", "Q", "R", "S", "T", "U", "V", "W", "X", "Y", "Z">>

Lower == <<"a", "b", "c", "d", "e", "f", "g", "h", "i", "j", "k", "l", "m",
           "n", "o", "p", "q", "r", "s", "t", "u", "v", "w", "x", "y", "z">>

\* re.IGNORECASE: a character matches its lower-case form
casefold(ch) ==
    IF \E k \in 1..Len(Upper) : Upper[k] = ch
    THEN Lower[CHOOSE k \in 1..Len(Upper) : Upper[k] = ch]
    ELSE ch

\* the pattern p matches at the start of the text t
match_at(t, p) ==
    /\ Len(p) <= Len(t)
    /\ \A i \in 1..Len(p) : casefold(t[i]) = p[i]

\* s.str.replace(_UNIT_RE, "", regex=True): scanning from the left, the
\* first alternative that matches at a position is removed
RECURSIVE strip_units(_)
strip_units(t) ==
    IF t = <<>> THEN <<>>
    ELSE LET hits == {k \in 1..Len(UNIT_PATTERNS) : match_at(t, UNIT_PATTERNS[k])}
         IN  IF hits = {} THEN <<Head(t)>> \o strip_units(Tail(t))
             ELSE LET k == CHOOSE k \in hits : \A j \in hits : k <= j
                  IN  strip_units(SubSeq(t, Len(UNIT_PATTERNS[k]) + 1, Len(t)))

Digits == <<"0", "1", "2", "3", "4", "5", "6", "7", "8", "9">>

IsDigit(ch) == \E k \in 1..Len(Digits) : Digits[k] = ch

\* s.str.replace(r"[^0-9\.\-eE+]", "", regex=True)
keep_numeric_chars(t) ==
    SelectSeq(t, LAMBDA ch : IsDigit(ch) \/ ch \in {".", "-", "e", "E", "+"})

\* s.astype(str): a blank field (NaN) becomes the text "nan"
astype_str(t) == IF t = <<>> THEN <<"n", "a", "n">> ELSE t

unsigned(t) == IF t # <<>> /\ Head(t) \in {"+", "-"} THEN Tail(t) ELSE t

\* digits with at most one decimal point and at least one digit
is_mantissa(t) ==
    /\ \E i \in 1..Len(t) : IsDigit(t[i])
    /\ \A i \in 1..Len(t) : IsDigit(t[i]) \/ t[i] = "."
    /\ Cardinality({i \in 1..Len(t) : t[i] = "."}) <= 1

\* the text is a decimal floating point literal
is_float_literal(t) ==
    LET u == unsigned(t)
        E == {i \in 1..Len(u) : u[i] \in {"e", "E"}}
    IN  IF E = {} THEN is_mantissa(u)
        ELSE /\ Cardinality(E) = 1
             /\ LET k == CHOOSE k \in E : TRUE
                    x == unsigned(SubSeq(u, k + 1, Len(u)))
                IN  /\ is_mantissa(SubSeq(u, 1, k - 1))
                    /\ x # <<>>
                    /\ \A i \in 1..Len(x) : IsDigit(x[i])

\* number of rows of the frame handed to preprocess
MaxPreRows == 2

\* the columns of the frames handed to preprocess: two of CANDIDATE_NUMERIC
\* (the first also in the units list), the date and a text column
PreCols == {"Club Speed", "Carry Deviation Distance", "Date", "Club Type"}

\* the texts of a column: "90", "9 mph", "[mph]", "n/a"; "-9", "9 degrees",
\* blank, "-"; a date with time and zone, with time, alone, "tbd"; "Driver"
PreTexts(c) ==
    CASE c = "Club Speed" ->
            { <<"9", "0">>, <<"9", " ", "m", "p", "h">>,
              <<"[", "m", "p", "h", "]">>, <<"n", "/", "a">> }
      [] c = "Carry Deviation Distance" ->
            { <<"-", "9">>, <<"9", " ", "d", "e", "g", "r", "e", "e", "s">>,
              <<>>, <<"-">> }
      [] c = "Date" ->
            { <<"2024-01-05", " ", "10:00:00", "+0000">>,
              <<"2024-01-05", " ", "10:00:00">>,
              <<"2024-01-05">>, <<"t", "b", "d">> }
      [] OTHER -> { <<"D", "r", "i", "v", "e", "r">> }

\* the column sets of the frames of the model
PreColumnSets ==
    { {}, {"Club Speed", "Club Type"}, {"Club Speed", "Carry Deviation Distance"},
      {"Club Speed", "Date"}, {"Carry Deviation Distance", "Date"} }

SessionLabels == {"Session", "Baseline"}

\* the value of a run of digits
RECURSIVE int_of(_)
int_of(t) ==
    IF t = <<>> THEN 0
    ELSE 10 * int_of(SubSeq(t, 1, Len(t) - 1))
         + ((CHOOSE k \in 1..Len(Digits) : Digits[k] = t[Len(t)]) - 1)

\* the value of a literal; the literals of the model's texts are whole
\* numbers without exponent
float_of(t) ==
    LET u == unsigned(t)
        v == int_of(SelectSeq(u, IsDigit))
    IN  IF t # <<>> /\ Head(t) = "-" THEN Num(0 - v) ELSE Num(v)

\* errors="coerce" answered with 0 instead of NaN
to_numeric_fill0(t) == IF is_float_literal(t) THEN float_of(t) ELSE Num(0)

\* pd.to_numeric(s, errors="coerce") on one text
to_numeric(t) == IF is_float_literal(t) THEN float_of(t) ELSE nan

\* s.dtype.kind in "biufc": read_csv types a column as numeric when every
\* field is blank or a number
is_numeric_dtype(s) ==
    \A i \in 1..Len(s) : s[i] = <<>> \/ is_float_literal(s[i])

\* the values of one column, a sequence of texts, as floats; numeric says
\* that the column's dtype is numeric
coerce_numeric_series(s, numeric) ==
    IF numeric
    THEN [i \in 1..Len(s) |-> IF s[i] = <<>> THEN nan ELSE float_of(s[i])]
    ELSE [i \in 1..Len(s) |->
             to_numeric(keep_numeric_chars(strip_units(astype_str(s[i]))))]

\* the lexemes of the date texts of the model
IsDate(x) == x = "2024-01-05"

IsTime(x) == x = "10:00:00"

IsZone(x) == x = "+0000"

\* pd.to_datetime(s, format="%Y-%m-%d %H:%M:%S%z", errors="coerce"); a
\* parsed instant is the hour of the day of the model's one date
strptime_z(t) ==
    IF Len(t) = 4 /\ IsDate(t[1]) /\ t[2] = " " /\ IsTime(t[3]) /\ IsZone(t[4])
    THEN Num(10) ELSE nan

\* pd.to_datetime(s, format="%Y-%m-%d %H:%M:%S", errors="coerce")
strptime_plain(t) ==
    IF Len(t) = 3 /\ IsDate(t[1]) /\ t[2] = " " /\ IsTime(t[3])
    THEN Num(10) ELSE nan

\* pd.to_datetime(s, errors="coerce", dayfirst=False, utc=False) on one
\* text: any of the forms above, or the date alone (midnight)
to_datetime(t) ==
    IF ~isna(strptime_z(t)) THEN strptime_z(t)
    ELSE IF ~isna(strptime_plain(t)) THEN strptime_plain(t)
    ELSE IF Len(t) = 1 /\ IsDate(t[1]) THEN Num(0)
    ELSE nan

\* the first format that parses any value is used for the whole column
parse_date_series(s) ==
    LET str == [i \in 1..Len(s) |-> astype_str(s[i])]
        p1  == [i \in 1..Len(s) |-> strptime_z(str[i])]
        p2  == [i \in 1..Len(s) |-> strptime_plain(str[i])]
    IN  IF \E i \in 1..Len(s) : ~isna(p1[i]) THEN p1
        ELSE IF \E i \in 1..Len(s) : ~isna(p2[i]) THEN p2
        ELSE [i \in 1..Len(s) |-> to_datetime(str[i])]

\* df[c] as a sequence
column(df, c) == [i \in 1..Len(df.rows) |-> df.rows[i].cell[c]]

\* the columns preprocess adds
derived_cols(df) ==
    (IF "Carry Deviation Distance" \in df.columns THEN {"|Carry Dev|"} ELSE {})
    \cup (IF "Total Deviation Distance" \in df.columns THEN {"|Total Dev|"} ELSE {})
    \cup (IF "Date" \in df.columns THEN {"Date_parsed"} ELSE {})
    \cup {"Session"}

\* Series.abs()
abs_of(x) == IF isna(x) THEN nan ELSE Num(IF x.v < 0 THEN 0 - x.v ELSE x.v)

preprocess(df0, label) ==
    LET df   == drop_units_row_if_present(df0)
        num  == [c \in CANDIDATE_NUMERIC \cap df.columns |->
                    coerce_numeric_series(column(df, c),
                                          is_numeric_dtype(column(df0, c)))]
        date == IF "Date" \in df.columns
                THEN parse_date_series(column(df, "Date")) ELSE <<>>
        cell(i, c) ==
            IF c = "Session" THEN label
            ELSE IF c = "Date_parsed" THEN date[i]
            ELSE IF c = "|Carry Dev|" THEN abs_of(num["Carry Deviation Distance"][i])
            ELSE IF c = "|Total Dev|" THEN abs_of(num["Total Deviation Distance"][i])
            ELSE IF c \in DOMAIN num THEN num[c][i]
            ELSE df.rows[i].cell[c]
        cols == df.columns \cup derived_cols(df)
    IN  [columns |-> cols,
         rows |-> [i \in 1..Len(df.rows) |->
                      [idx |-> df.rows[i].idx,
                       cell |-> [c \in cols |-> cell(i, c)]]]]


(***************************************************************************)
(* grouping.py: assign_group                                               *)
(***************************************************************************)
\* number of rows of the frame handed to assign_group
MaxGroupRows == 1

\* the columns of the frames of the model; "|Carry Dev|" is the deviation
\* column
GroupCols == {"Club Speed", "Spin Rate", "Carry Distance", "|Carry Dev|"}

GroupColumnSets ==
    {GroupCols, GroupCols \ {"Spin Rate"}, GroupCols \ {"|Carry Dev|"}, {}}

\* the values of a cell and the thresholds: below, at and above each other
GroupVals == {Num(0), Num(1), nan}

Thresholds == {0, 1}

\* dev_col: a column of the frame, a column it lacks, or None ("")
GroupDevCols == {"|Carry Dev|", "|Total Dev|", ""}

\* df[c] if c in df.columns else pd.Series(np.nan, index=df.index)
series_or_nan(df, c) ==
    [i \in 1..Len(df.rows) |-> IF c \in df.columns THEN df.rows[i].cell[c] ELSE nan]

\* a comparison that takes a missing value as passing
le_or_missing(x, t) == isna(x) \/ x.v <= t

\* s <= t, element by element: false for a missing value
le(x, t) == ~isna(x) /\ x.v <= t

\* s >= t, element by element: false for a missing value
ge(x, t) == ~isna(x) /\ x.v >= t

\* the Group column of the result; every label is one of the categories
assign_group(df, cs, spin_thr, carry_thr, dcol, dev_thr) ==
    LET club  == series_or_nan(df, "Club Speed")
        spin  == series_or_nan(df, "Spin Rate")
        carry == series_or_nan(df, "Carry Distance")
        dev   == IF dcol # "" /\ dcol \in df.columns
                 THEN series_or_nan(df, dcol)
                 ELSE [i \in 1..Len(df.rows) |-> nan]
    IN  [i \in 1..Len(df.rows) |->
            LET cond_short == le(club[i], cs) /\ le(spin[i], spin_thr)
                                 /\ le(carry[i], carry_thr)
                cond_shank == ge(dev[i], dev_thr)
            IN  IF cond_short THEN "Short practice"
                ELSE IF cond_shank THEN "Long shank"
                ELSE "Normal"]

(***************************************************************************)
(* app.py: one comparison run, _summarise_sessions.  Distances are yards,  *)
(* angles half degrees, whiskers halves.                                   *)
(***************************************************************************)
\* total number of rows of the two sessions of a run
MaxRunRows == 5

KEY_METRICS ==
    <<"Club Speed", "Ball Speed", "Smash Factor", "Launch Angle", "Spin Rate",
      "Apex Height", "Carry Distance", "Total Distance",
      "Carry Deviation Distance", "Total Deviation Distance", "Attack Angle",
      "Club Path", "Club Face", "Face to Path", "Spin Axis">>

\* the columns of a cleaned session of the model
RunCols == {"Club Type", "Carry Deviation Angle", "Carry Distance"}

\* the shots of the model: a driver to the left, a driver to the right and a
\* long iron to the right.  The distances are multiples of 60, so the mean of
\* up to six of them is a whole number.
RunShots ==
    { [c \in RunCols |-> IF c = "Club Type" THEN "Driver"
                         ELSE IF c = "Carry Deviation Angle" THEN Num(-5) ELSE Num(0)],
      [c \in RunCols |-> IF c = "Club Type" THEN "Driver"
                         ELSE IF c = "Carry Deviation Angle" THEN Num(5) ELSE Num(60)],
      [c \in RunCols |-> IF c = "Club Type" THEN "Iron"
                         ELSE IF c = "Carry Deviation Angle" THEN Num(5) ELSE Num(240)] }

\* the balancing modes the sidebar offers
UiModes == {"Simple", "Stratified: Club Type + Side"}

\* the configurations render_sidebar_filters returns, the side controls at
\* their defaults and the controls of a disabled stage at theirs; the
\* whisker is 1.0 or 3.0
RunConfigs ==
    {c \in [apply_iqr : BOOLEAN, iqr_whisker : {2, 6}, iqr_columns : {KEY_METRICS},
            balance : BOOLEAN, balance_mode : UiModes, balance_seed : Seeds,
            classify_side : BOOLEAN,
            primary_deviation_col : {"Carry Deviation Angle"}, dead_zone : {4},
            handed : {"Right-handed"}, invert : {FALSE}] :
        /\ ~c.apply_iqr => c.iqr_whisker = 6
        /\ ~c.balance => c.balance_mode = "Simple" /\ c.balance_seed = 42}

\* df["Side"] = classify_side(df, ...)
add_side_column(df, col, dz, hd, inv) ==
    LET s    == classify_side([columns |-> df.columns,
                               rows |-> [i \in 1..Len(df.rows) |-> df.rows[i].cell]],
                              col, dz, hd, inv)
        cols == df.columns \cup {"Side"}
    IN  [columns |-> cols,
         rows |-> [i \in 1..Len(df.rows) |->
                     [idx |-> df.rows[i].idx,
                      cell |-> [c \in cols |->
                                  IF c = "Side" THEN s[i] ELSE df.rows[i].cell[c]]]]]

_apply_processing(df, cfg) ==
    IF empty(df) THEN df
    ELSE LET sided == IF cfg.classify_side
                      THEN add_side_column(df, cfg.primary_deviation_col, cfg.dead_zone,
                                           cfg.handed, cfg.invert)
                      ELSE df
         IN  IF cfg.apply_iqr
             THEN iqr_filter(sided,
                             IF cfg.iqr_columns # <<>> THEN cfg.iqr_columns ELSE KEY_METRICS,
                             cfg.iqr_whisker)
             ELSE sided

RECURSIVE sum_of(_)
sum_of(xs) == IF xs = <<>> THEN 0 ELSE Head(xs) + sum_of(Tail(xs))

\* Series.mean(): over the values that are not missing; NaN when there is
\* none
mean_of(df, c) ==
    LET xs == sorted_values(df.rows, c)
    IN  IF xs = <<>> THEN nan ELSE Num(sum_of(xs) \div Len(xs))

\* one row per metric of the list that is a column of df, whatever the
\* number of rows of df; no such column gives the summary without rows
describe_session(df, metrics) ==
    LET cols == SelectSeq(metrics, LAMBDA c : c \in df.columns)
    IN  Table([k \in 1..Len(cols) |->
                 [Metric |-> cols[k],
                  count  |-> Len(sorted_values(df.rows, cols[k])),
                  mean   |-> mean_of(df, cols[k])]])

\* a call describe_session(*args): Python raises TypeError when the call
\* does not bind both parameters
call_describe_session(args) ==
    IF Len(args) # 2 THEN [raised |-> "TypeError", value |-> Null]
    ELSE [raised |-> "", value |-> describe_session(args[1], args[2])]

(***************************************************************************)
(* The variables of a family no call of the behaviour touches               *)
(***************************************************************************)
BalanceIdle ==
    /\ old_df = None /\ new_df = None /\ enable = FALSE /\ mode = "Simple" /\ seed = 0
    /\ balanced = None /\ rebalanced = None /\ np_random = 0

CompareIdle == old_desc = None /\ new_desc = None /\ comparison = None

SideIdle ==
    /\ side_df = None /\ primary_col = "Carry Deviation Angle" /\ dead_zone = 0
    /\ handed = "Right-handed" /\ invert = FALSE /\ side = None

IqrIdle ==
    /\ iqr_df = None /\ iqr_cols = <<>> /\ whisker = 0 /\ whisker2 = 0
    /\ kept = None /\ kept2 = None

UnitsIdle == raw = None /\ cleaned = None

PreIdle == pre_raw = None /\ session_label = "Session" /\ preprocessed = None

GroupIdle ==
    /\ group_df = None /\ cs_low = 0 /\ spin_low = 0 /\ carry_low = 0
    /\ dev_col = "" /\ dev_high = 0 /\ grouped = None

RunIdle ==
    /\ run_old = None /\ run_new = None /\ config = None
    /\ old_processed = None /\ new_processed = None
    /\ balanced_old = None /\ balanced_new = None /\ exception = ""

(***************************************************************************)
(* Balancing: two sessions are handed to balance_samples, then the same    *)
(* call is made again in the same process.                                 *)
(***************************************************************************)
BalanceInit ==
    /\ pc = "start"
    /\ \E a \in 0..MaxRows : \E b \in 0..(MaxRows - a) :
         \E oc \in SUBSET StratCols : \E nc \in SUBSET StratCols :
           LET Ro == Cells(oc)
               Rn == Cells(nc)
           IN  \E fo \in [1..a -> Ro] : \E fn \in [1..b -> Rn] :
                 /\ old_df = Frame(oc, fo)
                 /\ new_df = Frame(nc, fn)
    /\ enable = FALSE /\ mode = "Simple" /\ seed = 0
    /\ balanced = None /\ rebalanced = None
    /\ np_random = 0
    /\ CompareIdle /\ SideIdle /\ IqrIdle /\ UnitsIdle /\ PreIdle /\ GroupIdle /\ RunIdle

Balance ==
    /\ pc = "start"
    /\ \E en \in BOOLEAN : \E m \in Modes : \E s \in Seeds :
         LET r == balance_samples(old_df, new_df, en, m, s, np_random)
         IN  /\ enable' = en /\ mode' = m /\ seed' = s
             /\ balanced' = [old |-> r.old, new |-> r.new]
             /\ np_random' = r.g
    /\ pc' = "balanced"
    /\ UNCHANGED <<old_df, new_df, rebalanced, compare_vars, side_vars, iqr_vars, units_vars>>
    /\ UNCHANGED <<pre_vars, group_vars, run_vars>>

Rebalance ==
    /\ pc = "balanced"
    /\ LET r == balance_samples(old_df, new_df, enable, mode, seed, np_random)
       IN  /\ rebalanced' = [old |-> r.old, new |-> r.new]
           /\ np_random' = r.g
    /\ pc' = "rebalanced"
    /\ UNCHANGED <<old_df, new_df, enable, mode, seed, balanced>>
    /\ UNCHANGED <<compare_vars, side_vars, iqr_vars, units_vars, pre_vars, group_vars, run_vars>>

BalanceNext == Balance \/ Rebalance

SpecBalance == BalanceInit /\ [][BalanceNext]_vars


\* the number of rows of df whose key over by is key (missing equal to missing)
CountKey(df, key, by) ==
    Cardinality({i \in 1..len(df) : KeyOf(df.rows[i], by) = key})

\* the keys observed in either input
KeysOf(o, n, by) ==
    {KeyOf(o.rows[i], by) : i \in 1..len(o)} \cup {KeyOf(n.rows[i], by) : i \in 1..len(n)}

\* C1: in mode "Simple", enabled, on two non-empty sessions of sizes a and b,
\* both balanced sessions have exactly min(a, b) rows, for every seed.
C1_SimpleSizeLaw ==
    (pc # "start" /\ enable /\ mode = "Simple" /\ ~empty(old_df) /\ ~empty(new_df))
        => /\ len(balanced.old) = Min(len(old_df), len(new_df))
           /\ len(balanced.new) = Min(len(old_df), len(new_df))

\* a Simple run that had to sample two rows out of three
C1_Witness ==
    /\ pc = "balanced" /\ enable /\ mode = "Simple"
    /\ len(old_df) = 3 /\ len(new_df) = 2
    /\ len(balanced.old) = 2 /\ len(balanced.new) = 2

\* C2: in the stratified mode, enabled, on two non-empty sessions that share
\* at least one stratification column, every key observed in either input
\* has the same number of rows in both outputs, namely the minimum of its
\* counts in the two inputs (zero when one side lacks the key); a missing
\* component of a key equals only a missing component.
C2_StratifiedGroupLaw ==
    (pc # "start" /\ enable /\ mode = "Stratified: Club Type + Side"
        /\ ~empty(old_df) /\ ~empty(new_df) /\ by_cols(old_df, new_df) # {})
        => LET by == by_cols(old_df, new_df)
           IN  \A key \in KeysOf(old_df, new_df, by) :
                 /\ CountKey(balanced.old, key, by)
                      = Min(CountKey(old_df, key, by), CountKey(new_df, key, by))
                 /\ CountKey(balanced.new, key, by)
                      = Min(CountKey(old_df, key, by), CountKey(new_df, key, by))

\* a stratified run over both columns with a key that has a missing
\* component on both sides (two rows against one) and a key only old has
C2_Witness ==
    /\ pc = "balanced" /\ enable /\ mode = "Stratified: Club Type + Side"
    /\ by_cols(old_df, new_df) = StratCols
    /\ LET by == StratCols
           k1 == [c \in by |-> IF c = "Side" THEN NaN ELSE "Driver"]
           k2 == [c \in by |-> IF c = "Side" THEN "Left" ELSE "Driver"]
       IN  /\ CountKey(old_df, k1, by) = 2 /\ CountKey(new_df, k1, by) = 1
           /\ CountKey(old_df, k2, by) = 1 /\ CountKey(new_df, k2, by) = 0
           /\ CountKey(balanced.old, k1, by) = 1
           /\ CountKey(balanced.old, k2, by) = 0

\* C3: a second call of balance_samples with the same sessions, enable flag,
\* mode and seed selects the same rows, in the same order, as the first.
C3_Determinism ==
    pc = "rebalanced" => rebalanced = balanced

\* two calls that both sampled one session down, and the other seed selects
\* other rows
C3_Witness ==
    /\ pc = "rebalanced" /\ enable /\ mode = "Simple"
    /\ len(balanced.old) < len(old_df)
    /\ rebalanced = balanced
    /\ \E s \in Seeds :
         balance_samples(old_df, new_df, enable, mode, s, np_random).old # balanced.old


(***************************************************************************)
(* Comparison: two descriptive summaries are handed to compare_sessions.   *)
(***************************************************************************)
CompareInit ==
    /\ pc = "start"
    /\ old_desc \in Summaries \cup {Null}
    /\ new_desc \in Summaries \cup {Null}
    /\ comparison = None
    /\ BalanceIdle /\ SideIdle /\ IqrIdle /\ UnitsIdle /\ PreIdle /\ GroupIdle /\ RunIdle

Compare ==
    /\ pc = "start"
    /\ comparison' = compare_sessions(old_desc, new_desc)
    /\ pc' = "compared"
    /\ UNCHANGED <<old_desc, new_desc, balance_vars, side_vars, iqr_vars, units_vars>>
    /\ UNCHANGED <<pre_vars, group_vars, run_vars>>

CompareNext == Compare

SpecCompare == CompareInit /\ [][CompareNext]_vars

\* the mean of metric in a summary, when the summary has the metric
HasMetric(desc, metric) == \E i \in 1..Len(desc.rows) : desc.rows[i].Metric = metric

MeanOf(desc, metric) ==
    desc.rows[CHOOSE i \in 1..Len(desc.rows) : desc.rows[i].Metric = metric].mean

Polarity(metric) ==
    IF metric \in DOMAIN BETTER_DIRECTION THEN BETTER_DIRECTION[metric] ELSE 0

\* C4: every metric of both summaries has a row in the comparison; with
\* finite means and polarity +1 its improvement_sign is +1 exactly when
\* mean_new > mean_old, with polarity -1 exactly when mean_new < mean_old;
\* with polarity 0, or outside the catalogue, improvement_sign is undefined
\* whatever the means are.
C4_DeltaSignConsistency ==
    pc = "compared" =>
        \A k \in 1..Len(SummaryMetrics) :
            LET metric == SummaryMetrics[k]
            IN  (HasMetric(old_desc, metric) /\ HasMetric(new_desc, metric)) =>
                  LET mo == MeanOf(old_desc, metric)
                      mn == MeanOf(new_desc, metric)
                  IN  /\ \E i \in 1..Len(comparison.rows) : comparison.rows[i].Metric = metric
                      /\ \A i \in 1..Len(comparison.rows) :
                           comparison.rows[i].Metric = metric =>
                             /\ (Polarity(metric) = 1 /\ ~isna(mo) /\ ~isna(mn))
                                   => (comparison.rows[i].improvement_sign = Num(1)
                                         <=> mn.v > mo.v)
                             /\ (Polarity(metric) = -1 /\ ~isna(mo) /\ ~isna(mn))
                                   => (comparison.rows[i].improvement_sign = Num(1)
                                         <=> mn.v < mo.v)
                             /\ Polarity(metric) = 0
                                   => isna(comparison.rows[i].improvement_sign)

\* a comparison with a lower-is-better metric that went down (improvement),
\* a higher-is-better metric that went down, and a neutral metric that moved
C4_Witness ==
    /\ pc = "compared"
    /\ \E i, j, k \in 1..Len(comparison.rows) :
         /\ comparison.rows[i].Metric = "Carry Deviation Distance"
         /\ ~isna(comparison.rows[i].delta) /\ comparison.rows[i].delta.v < 0
         /\ comparison.rows[i].improvement_sign = Num(1)
         /\ comparison.rows[j].Metric = "Club Speed"
         /\ ~isna(comparison.rows[j].delta) /\ comparison.rows[j].delta.v < 0
         /\ comparison.rows[j].improvement_sign = Num(-1)
         /\ comparison.rows[k].Metric = "Spin Rate"
         /\ ~isna(comparison.rows[k].delta) /\ comparison.rows[k].delta.v > 0
         /\ isna(comparison.rows[k].improvement_sign)

\* C5: the rows of a comparison are in descending improvement_sign, rows with
\* an undefined improvement_sign after all rows with a defined one; rows of
\* one improvement_sign tier are in descending pct_change, rows with an
\* undefined pct_change after the rows of the tier with a defined one.
C5_ComparisonOrdering ==
    pc = "compared" =>
        \A i, j \in 1..Len(comparison.rows) :
            i < j =>
              LET a == comparison.rows[i]
                  b == comparison.rows[j]
              IN  /\ isna(a.improvement_sign) => isna(b.improvement_sign)
                  /\ (~isna(a.improvement_sign) /\ ~isna(b.improvement_sign))
                        => a.improvement_sign.v >= b.improvement_sign.v
                  /\ (a.improvement_sign = b.improvement_sign)
                        => /\ isna(a.pct_change) => isna(b.pct_change)
                           /\ (~isna(a.pct_change) /\ ~isna(b.pct_change))
                                 => ~PctLess(a.pct_change, b.pct_change)

\* a comparison of three rows the sort had to reorder: two improvements with
\* different pct_change, the larger one later in the merge, and a row with an
\* undefined improvement_sign that the merge had between them
C5_Witness ==
    /\ pc = "compared" /\ Len(comparison.rows) = 3
    /\ comparison.rows[1].Metric = "Carry Deviation Distance"
    /\ comparison.rows[2].Metric = "Club Speed"
    /\ comparison.rows[3].Metric = "Spin Rate"
    /\ comparison.rows[1].improvement_sign = Num(1) /\ comparison.rows[2].improvement_sign = Num(1)
    /\ isna(comparison.rows[3].improvement_sign)
    /\ ~isna(comparison.rows[1].pct_change) /\ ~isna(comparison.rows[2].pct_change)
    /\ PctLess(comparison.rows[2].pct_change, comparison.rows[1].pct_change)


(***************************************************************************)
(* Side classification: a frame is handed to classify_side.                *)
(***************************************************************************)
SideInit ==
    /\ pc = "start"
    /\ \E cols \in SideColumnSets : \E n \in 0..MaxSideRows :
         \E r \in [1..n -> [cols -> Angles]] : side_df = [columns |-> cols, rows |-> r]
    /\ primary_col \in DevCols
    /\ dead_zone \in DeadZones
    /\ handed \in Handedness
    /\ invert \in BOOLEAN
    /\ side = None
    /\ BalanceIdle /\ CompareIdle /\ IqrIdle /\ UnitsIdle /\ PreIdle /\ GroupIdle /\ RunIdle

Classify ==
    /\ pc = "start"
    /\ side' = classify_side(side_df, primary_col, dead_zone, handed, invert)
    /\ pc' = "classified"
    /\ UNCHANGED <<side_df, primary_col, dead_zone, handed, invert>>
    /\ UNCHANGED <<balance_vars, compare_vars, iqr_vars, units_vars, pre_vars, group_vars, run_vars>>

SideNext == Classify

SpecSide == SideInit /\ [][SideNext]_vars

\* the deviation value of row i as the caller sees it: missing when the
\* chosen column is absent
Deviation(i) ==
    IF primary_col \in side_df.columns THEN side_df.rows[i][primary_col] ELSE nan

\* C6: a row whose deviation value is missing (every row, when the chosen
\* column is absent) gets a missing side label, whatever the dead zone,
\* handedness and invert setting are.
C6_MissingInputMissingSide ==
    pc = "classified" =>
        \A i \in 1..Len(side_df.rows) : isna(Deviation(i)) => side[i] = NaN

\* one frame with one row of deviation x, as classify_side labels it
LabelOf(x, dz, hd, inv) ==
    classify_side([columns |-> {"Carry Deviation Angle"},
                   rows |-> <<[c \in {"Carry Deviation Angle"} |-> Num(x)]>>],
                  "Carry Deviation Angle", dz, hd, inv)[1]

\* C7: a row with deviation v gets, with s = -v when invert and s = v
\* otherwise, the label Straight when |s| <= dead zone; otherwise Right for
\* s > 0 and Left for s < 0, and the opposite for handedness "Left-handed".
\* 1.5 degrees is Straight with dead zone 2.0 and Right with dead zone 1.0;
\* 5 degrees left-handed is Left.
C7_SideOfPresentValue ==
    /\ pc = "classified" =>
         \A i \in 1..Len(side_df.rows) :
            ~isna(Deviation(i)) =>
               LET v == Deviation(i).v
                   s == IF invert THEN -v ELSE v
               IN  /\ (s <= dead_zone /\ -s <= dead_zone) => side[i] = "Straight"
                   /\ (s > dead_zone /\ handed # "Left-handed") => side[i] = "Right"
                   /\ (-s > dead_zone /\ handed # "Left-handed") => side[i] = "Left"
                   /\ (s > dead_zone /\ handed = "Left-handed") => side[i] = "Left"
                   /\ (-s > dead_zone /\ handed = "Left-handed") => side[i] = "Right"
    /\ LabelOf(3, 4, "Right-handed", FALSE) = "Straight"
    /\ LabelOf(3, 2, "Right-handed", FALSE) = "Right"
    /\ LabelOf(10, 4, "Left-handed", FALSE) = "Left"

\* a left-handed classification of 2.5 degrees (Left) and of a value on the
\* boundary of a dead zone of 1.5 degrees (Straight)
C7_Witness ==
    /\ pc = "classified" /\ Len(side_df.rows) = 2
    /\ primary_col \in side_df.columns
    /\ handed = "Left-handed" /\ ~invert /\ dead_zone = 3
    /\ Deviation(1) = Num(5) /\ side[1] = "Left"
    /\ Deviation(2) = Num(-3) /\ side[2] = "Straight"


(***************************************************************************)
(* IQR filter: a frame is filtered, then filtered again, from the same     *)
(* frame, with a wider whisker.                                            *)
(***************************************************************************)
IqrInit ==
    /\ pc = "start"
    /\ \E cols \in SUBSET IqrCols : \E n \in 0..MaxIqrRows :
         LET R == IqrRows(cols)
         IN  \E f \in [1..n -> R] : iqr_df = IqrFrame(cols, f)
    /\ iqr_cols \in IqrColLists
    /\ whisker = 0 /\ whisker2 = 0
    /\ kept = None /\ kept2 = None
    /\ BalanceIdle /\ CompareIdle /\ SideIdle /\ UnitsIdle /\ PreIdle /\ GroupIdle /\ RunIdle

Filter ==
    /\ pc = "start"
    /\ \E w \in Whiskers :
         /\ whisker' = w
         /\ kept' = iqr_filter(iqr_df, iqr_cols, w)
    /\ pc' = "filtered"
    /\ UNCHANGED <<iqr_df, iqr_cols, whisker2, kept2>>
    /\ UNCHANGED <<balance_vars, compare_vars, side_vars, units_vars, pre_vars, group_vars, run_vars>>

FilterWider ==
    /\ pc = "filtered"
    /\ \E w \in Whiskers :
         /\ w > whisker
         /\ whisker2' = w
         /\ kept2' = iqr_filter(iqr_df, iqr_cols, w)
    /\ pc' = "refiltered"
    /\ UNCHANGED <<iqr_df, iqr_cols, whisker, kept>>
    /\ UNCHANGED <<balance_vars, compare_vars, side_vars, units_vars, pre_vars, group_vars, run_vars>>

IqrNext == Filter \/ FilterWider

SpecIqr == IqrInit /\ [][IqrNext]_vars

\* the index labels of the rows of a frame
Labels(df) == {df.rows[i].idx : i \in 1..Len(df.rows)}

\* C8: the rows kept under a whisker are among the rows kept, from the same
\* frame and columns, under any larger whisker.
C8_IqrMonotone ==
    pc = "refiltered" => Labels(kept) \subseteq Labels(kept2)

\* a frame from which the smaller whisker drops a row the larger one keeps
C8_Witness ==
    /\ pc = "refiltered"
    /\ Labels(kept) # Labels(kept2)
    /\ Labels(kept) \subseteq Labels(kept2)
    /\ Labels(kept) # {}

\* column c constrains the rows: it is requested, present, and its IQR is
\* finite and positive
Constrains(c) ==
    /\ \E k \in 1..Len(iqr_cols) : iqr_cols[k] = c
    /\ c \in iqr_df.columns
    /\ ~isna(quantile4(iqr_df, c, 1))
    /\ quantile4(iqr_df, c, 3).v > quantile4(iqr_df, c, 1).v

\* value x lies in [Q1 - whisker*IQR, Q3 + whisker*IQR] of column c, for a
\* whisker of w halves (all sides times eight)
WithinFence(x, c, w) ==
    LET q1 == quantile4(iqr_df, c, 1).v
        q3 == quantile4(iqr_df, c, 3).v
    IN  /\ 8 * x >= 2 * q1 - w * (q3 - q1)
        /\ 8 * x <= 2 * q3 + w * (q3 - q1)

\* C9: iqr_filter keeps a row exactly when, in every constraining column,
\* its value is missing or within the closed fence; absent columns and
\* columns with a zero or non-finite IQR drop nothing; a kept row is the
\* row of the frame, unchanged.
C9_IqrRetention ==
    pc = "filtered" =>
        /\ LET constraining == {c \in IqrCols : Constrains(c)}
                kept_labels  == Labels(kept)
           IN  \A i \in 1..Len(iqr_df.rows) :
                  (i \in kept_labels) <=>
                     \A c \in constraining :
                        \/ isna(iqr_df.rows[i].cell[c])
                        \/ WithinFence(iqr_df.rows[i].cell[c].v, c, whisker)
        /\ \A j \in 1..Len(kept.rows) : kept.rows[j] = iqr_df.rows[kept.rows[j].idx]

\* a filtered frame with both columns constraining: one row dropped by the
\* first column only, one by the second only, one kept with a missing
\* value, and one kept on the edge of its fence
C9_Witness ==
    /\ pc = "filtered"
    /\ Constrains("Carry Distance") /\ Constrains("Spin Rate")
    /\ \E i \in 1..Len(iqr_df.rows) :
         /\ i \in Labels(kept) /\ isna(iqr_df.rows[i].cell["Carry Distance"])
    /\ \E i \in 1..Len(iqr_df.rows) :
         /\ i \notin Labels(kept)
         /\ ~isna(iqr_df.rows[i].cell["Carry Distance"])
         /\ WithinFence(iqr_df.rows[i].cell["Carry Distance"].v, "Carry Distance", whisker)
         /\ ~WithinFence(iqr_df.rows[i].cell["Spin Rate"].v, "Spin Rate", whisker)

\* a kept value exactly on the upper edge of its fence
C9_WitnessEdge ==
    /\ pc = "filtered" /\ Constrains("Carry Distance")
    /\ \E i \in Labels(kept) :
         /\ ~isna(iqr_df.rows[i].cell["Carry Distance"])
         /\ 8 * iqr_df.rows[i].cell["Carry Distance"].v
              = 2 * quantile4(iqr_df, "Carry Distance", 3).v
                + whisker * (quantile4(iqr_df, "Carry Distance", 3).v
                             - quantile4(iqr_df, "Carry Distance", 1).v)


(***************************************************************************)
(* Units row: a raw frame goes through drop_units_row_if_present, the      *)
(* first step of preprocess and the only one that removes rows.            *)
(***************************************************************************)
UnitsInit ==
    /\ pc = "start"
    /\ \E cols \in SUBSET RawCols : \E n \in 0..MaxRawRows :
         \E f \in [1..n -> [cols -> RawTexts]] :
            raw = [columns |-> cols,
                   rows |-> [i \in 1..n |-> [idx |-> i, cell |-> f[i]]]]
    /\ cleaned = None
    /\ BalanceIdle /\ CompareIdle /\ SideIdle /\ IqrIdle /\ PreIdle /\ GroupIdle /\ RunIdle

DropUnitsRow ==
    /\ pc = "start"
    /\ cleaned' = drop_units_row_if_present(raw)
    /\ pc' = "cleaned"
    /\ UNCHANGED raw
    /\ UNCHANGED <<balance_vars, compare_vars, side_vars, iqr_vars, pre_vars, group_vars, run_vars>>

UnitsNext == DropUnitsRow

SpecUnits == UnitsInit /\ [][UnitsNext]_vars

\* the first row of the raw frame is gone from the result
FirstRowDropped == Len(raw.rows) > 0 /\ 1 \notin Labels(cleaned)

\* C10: the first row is dropped if and only if its value in at least one
\* column of CANDIDATE_NUMERIC present in the frame matches the bracketed
\* units pattern; no other row is ever dropped.
C10_UnitsRowDetection ==
    pc = "cleaned" =>
        /\ Len(raw.rows) > 0 =>
             (FirstRowDropped <=>
                \E c \in CANDIDATE_NUMERIC \cap raw.columns :
                    matches_units(raw.rows[1].cell[c]))
        /\ \A i \in 2..Len(raw.rows) : i \in Labels(cleaned)

(***************************************************************************)
(* Cleaning: a frame read from a CSV is handed to preprocess.              *)
(***************************************************************************)
PreInit ==
    /\ pc = "start"
    /\ \E cols \in PreColumnSets : \E n \in 0..MaxPreRows :
         LET R == {g \in [cols -> UNION {PreTexts(c) : c \in PreCols}] :
                      \A c \in cols : g[c] \in PreTexts(c)}
         IN  \E f \in [1..n -> R] :
                pre_raw = [columns |-> cols,
                           rows |-> [i \in 1..n |-> [idx |-> i, cell |-> f[i]]]]
    /\ session_label = "Session"
    /\ preprocessed = None
    /\ BalanceIdle /\ CompareIdle /\ SideIdle /\ IqrIdle /\ UnitsIdle /\ GroupIdle /\ RunIdle

Preprocess ==
    /\ pc = "start"
    /\ \E label \in SessionLabels :
         /\ session_label' = label
         /\ preprocessed' = preprocess(pre_raw, label)
    /\ pc' = "preprocessed"
    /\ UNCHANGED pre_raw
    /\ UNCHANGED <<balance_vars, compare_vars, side_vars, iqr_vars, units_vars, group_vars, run_vars>>

PreNext == Preprocess

SpecPreprocess == PreInit /\ [][PreNext]_vars

\* the text holds no digit
NoDigit(t) == \A i \in 1..Len(t) : ~IsDigit(t[i])

\* the text does not start with a date
NoDate(t) == t = <<>> \/ ~IsDate(t[1])

\* the value of column c in row i of the raw frame cannot be parsed
Malformed(df, i, c) ==
    \/ c \in CANDIDATE_NUMERIC /\ NoDigit(df.rows[i].cell[c])
    \/ c = "Date" /\ NoDate(df.rows[i].cell[c])

\* the column of the result that holds the parsed values of column c
ParsedCol(c) == IF c = "Date" THEN "Date_parsed" ELSE c

\* the frame without the row labelled j
WithoutRow(df, j) == [df EXCEPT !.rows = SelectSeq(df.rows, LAMBDA r : r.idx # j)]

\* 1 when the leading row is detected as the units row, else 0
UnitsRows(df) == Len(df.rows) - Len(drop_units_row_if_present(df).rows)

\* C11: preprocess returns one row per input row in the input's order,
\* except the leading units row when one is detected; a numeric-candidate or
\* Date value that cannot be parsed is missing (not zero) in its own row;
\* the columns preprocess does not coerce keep their texts; and the other
\* rows' values of that column are what they are without the malformed row.
C11_MalformedValuesKeepRows ==
    pc = "preprocessed" =>
        LET d == UnitsRows(pre_raw)
        IN  /\ Len(preprocessed.rows) = Len(pre_raw.rows) - d
            /\ \A i \in 1..Len(preprocessed.rows) :
                 LET r == preprocessed.rows[i]
                     q == pre_raw.rows[i + d]
                 IN  /\ r.idx = q.idx
                     /\ \A c \in pre_raw.columns :
                          /\ Malformed(pre_raw, i + d, c) => isna(r.cell[ParsedCol(c)])
                          /\ c \notin CANDIDATE_NUMERIC => r.cell[c] = q.cell[c]
            /\ \A j \in 2..Len(pre_raw.rows) : \A c \in pre_raw.columns :
                 Malformed(pre_raw, j, c) =>
                    column(preprocess(WithoutRow(pre_raw, j), session_label),
                           ParsedCol(c))
                        = column(WithoutRow(preprocessed, j), ParsedCol(c))

\* a malformed Club Speed in the second row, a parsed one in the first: both
\* rows are kept, the second with a missing Club Speed
C11_Witness ==
    /\ pc = "preprocessed"
    /\ Len(pre_raw.rows) = 2 /\ "Club Speed" \in pre_raw.columns
    /\ pre_raw.rows[1].cell["Club Speed"] = <<"9", "0">>
    /\ pre_raw.rows[2].cell["Club Speed"] = <<"n", "/", "a">>
    /\ Len(preprocessed.rows) = 2
    /\ preprocessed.rows[1].cell["Club Speed"] = Num(90)
    /\ isna(preprocessed.rows[2].cell["Club Speed"])

\* the modes balance_samples recognizes
RecognizedModes == {"Simple", "Stratified: Club Type + Side"}

\* the call is disabled, or a session is empty, or the mode is unknown, or
\* the stratified mode finds no stratification column in both sessions
PassThroughCase ==
    \/ ~enable
    \/ empty(old_df) \/ empty(new_df)
    \/ mode \notin RecognizedModes
    \/ mode = "Stratified: Club Type + Side" /\ by_cols(old_df, new_df) = {}

\* C12: when balancing is disabled, or either session is empty, or the mode
\* is not a recognized one, or the stratified mode has no stratification
\* column present in both sessions, balance_samples returns both inputs
\* unchanged (same rows, same order).
C12_PassThrough ==
    (pc # "start" /\ PassThroughCase)
        => /\ balanced.old = old_df
           /\ balanced.new = new_df

\* the stratified mode on sessions of different sizes that share no
\* stratification column returns them as they are
C12_Witness ==
    /\ pc = "balanced" /\ enable /\ mode = "Stratified: Club Type + Side"
    /\ len(old_df) = 3 /\ len(new_df) = 2
    /\ by_cols(old_df, new_df) = {}
    /\ balanced.old = old_df /\ balanced.new = new_df

\* C13: with balancing enabled and the mode string "Stratified", on two
\* non-empty sessions that both have Club Type and Side, every stratum ends
\* with the minimum of its two counts on both sides.
C13_StratifiedNameHonoured ==
    (pc # "start" /\ enable /\ mode = "Stratified"
        /\ ~empty(old_df) /\ ~empty(new_df) /\ by_cols(old_df, new_df) = StratCols)
        => \A key \in KeysOf(old_df, new_df, StratCols) :
             /\ CountKey(balanced.old, key, StratCols)
                  = Min(CountKey(old_df, key, StratCols), CountKey(new_df, key, StratCols))
             /\ CountKey(balanced.new, key, StratCols)
                  = Min(CountKey(old_df, key, StratCols), CountKey(new_df, key, StratCols))

\* the metrics of a summary (none for a null summary)
MetricsOf(desc) == {desc.rows[i].Metric : i \in 1..Len(desc.rows)}

\* C16: compare_sessions always returns a table, never null; the table has
\* no rows when a summary is null or empty or when no metric occurs in both;
\* every row of it is a metric of both summaries, and every metric of both
\* summaries has exactly one row (the metrics of a summary are distinct).
C16_CompareEmptySafe ==
    pc = "compared" =>
        LET both == MetricsOf(old_desc) \cap MetricsOf(new_desc)
        IN  /\ ~comparison.none
            /\ (old_desc.none \/ new_desc.none \/ both = {}) => comparison.rows = <<>>
            /\ \A i \in 1..Len(comparison.rows) : comparison.rows[i].Metric \in both
            /\ \A metric \in both :
                 Cardinality({i \in 1..Len(comparison.rows) :
                                 comparison.rows[i].Metric = metric}) = 1

\* two summaries with rows but without a common metric give the table
\* without rows
C16_Witness ==
    /\ pc = "compared"
    /\ ~old_desc.none /\ ~new_desc.none
    /\ Len(old_desc.rows) = 2 /\ Len(new_desc.rows) = 1
    /\ MetricsOf(old_desc) \cap MetricsOf(new_desc) = {}
    /\ ~comparison.none /\ comparison.rows = <<>>

(***************************************************************************)
(* Grouping: a frame and the thresholds are handed to assign_group.        *)
(***************************************************************************)
GroupInit ==
    /\ pc = "start"
    /\ \E cols \in GroupColumnSets : \E n \in 0..MaxGroupRows :
         \E f \in [1..n -> [cols -> GroupVals]] :
            group_df = [columns |-> cols,
                        rows |-> [i \in 1..n |-> [idx |-> i, cell |-> f[i]]]]
    /\ cs_low = 0 /\ spin_low = 0 /\ carry_low = 0
    /\ dev_col = "" /\ dev_high = 0 /\ grouped = None
    /\ BalanceIdle /\ CompareIdle /\ SideIdle /\ IqrIdle /\ UnitsIdle /\ PreIdle /\ RunIdle

AssignGroup ==
    /\ pc = "start"
    /\ \E a \in Thresholds : \E b \in Thresholds : \E c \in Thresholds :
         \E col \in GroupDevCols : \E d \in Thresholds :
            /\ cs_low' = a /\ spin_low' = b /\ carry_low' = c
            /\ dev_col' = col /\ dev_high' = d
            /\ grouped' = assign_group(group_df, a, b, c, col, d)
    /\ pc' = "grouped"
    /\ UNCHANGED group_df
    /\ UNCHANGED <<balance_vars, compare_vars, side_vars, iqr_vars, units_vars, pre_vars, run_vars>>

GroupNext == AssignGroup

SpecGroup == GroupInit /\ [][GroupNext]_vars

\* column c is present and row i holds a value in it
Present(df, i, c) == c \in df.columns /\ ~isna(df.rows[i].cell[c])

\* the three key metrics of row i are present and at or below their thresholds
ShortPractice(i) ==
    /\ Present(group_df, i, "Club Speed")
    /\ group_df.rows[i].cell["Club Speed"].v <= cs_low
    /\ Present(group_df, i, "Spin Rate")
    /\ group_df.rows[i].cell["Spin Rate"].v <= spin_low
    /\ Present(group_df, i, "Carry Distance")
    /\ group_df.rows[i].cell["Carry Distance"].v <= carry_low

\* the chosen deviation column is present and row i is at or above the
\* deviation threshold in it
Mishit(i) ==
    /\ Present(group_df, i, dev_col)
    /\ group_df.rows[i].cell[dev_col].v >= dev_high

\* C17: every row has exactly one label: "Short practice" exactly when its
\* three key metrics are present and at or below their thresholds; otherwise
\* "Long shank" exactly when the chosen deviation column is present and the
\* row's value in it is present and at or above the threshold; otherwise
\* "Normal".
C17_GroupDecisionRule ==
    pc = "grouped" =>
        /\ Len(grouped) = Len(group_df.rows)
        /\ \A i \in 1..Len(grouped) :
             grouped[i] = IF ShortPractice(i) THEN "Short practice"
                          ELSE IF Mishit(i) THEN "Long shank"
                          ELSE "Normal"

\* a row that meets both conditions is "Short practice"
C17_Witness ==
    /\ pc = "grouped" /\ Len(group_df.rows) = 1
    /\ ShortPractice(1) /\ Mishit(1)
    /\ grouped[1] = "Short practice"

\* a row with a missing key metric and a deviation at the threshold is
\* "Long shank"
C17_WitnessMissing ==
    /\ pc = "grouped" /\ Len(group_df.rows) = 1
    /\ "Spin Rate" \in group_df.columns /\ isna(group_df.rows[1].cell["Spin Rate"])
    /\ Mishit(1) /\ group_df.rows[1].cell[dev_col].v = dev_high
    /\ grouped[1] = "Long shank"

(***************************************************************************)
(* One comparison run: two cleaned sessions and a configuration are handed *)
(* to _summarise_sessions, which processes, balances and summarises them.  *)
(***************************************************************************)
RunInit ==
    /\ pc = "start"
    /\ \E a \in 0..MaxRunRows : \E b \in 0..(MaxRunRows - a) :
         \E oc \in (IF a = 0 THEN {RunCols, {}} ELSE {RunCols}) :
         \E nc \in (IF b = 0 THEN {RunCols, {}} ELSE {RunCols}) :
           \E fo \in [1..a -> RunShots] : \E fn \in [1..b -> RunShots] :
              /\ run_old = Frame(oc, fo)
              /\ run_new = Frame(nc, fn)
    /\ config = None
    /\ old_processed = None /\ new_processed = None
    /\ balanced_old = None /\ balanced_new = None /\ exception = ""
    /\ BalanceIdle /\ CompareIdle /\ SideIdle /\ IqrIdle /\ UnitsIdle /\ PreIdle /\ GroupIdle

\* app.py 116-117
ApplyProcessing ==
    /\ pc = "start"
    /\ \E cfg \in RunConfigs :
         /\ config' = cfg
         /\ old_processed' = _apply_processing(run_old, cfg)
         /\ new_processed' = _apply_processing(run_new, cfg)
    /\ pc' = "processed"
    /\ UNCHANGED <<run_old, run_new, balanced_old, balanced_new, exception>>
    /\ UNCHANGED <<balance_vars, compare_vars, side_vars, iqr_vars, units_vars, pre_vars, group_vars>>

\* app.py 119-125
BalanceRun ==
    /\ pc = "processed"
    /\ LET r == balance_samples(old_processed, new_processed, config.balance,
                                config.balance_mode, config.balance_seed, np_random)
       IN  /\ balanced_old' = r.old
           /\ balanced_new' = r.new
           /\ np_random' = r.g
    /\ pc' = "balanced"
    /\ UNCHANGED <<run_old, run_new, config, old_processed, new_processed, exception>>
    /\ UNCHANGED <<old_df, new_df, enable, mode, seed, balanced, rebalanced>>
    /\ UNCHANGED <<compare_vars, side_vars, iqr_vars, units_vars, pre_vars, group_vars>>

\* app.py 127-139: the two describe_session calls pass the frame alone
Summarise ==
    /\ pc = "balanced"
    /\ LET d_old == call_describe_session(<<balanced_old>>)
           d_new == call_describe_session(<<balanced_new>>)
       IN  IF d_old.raised # "" \/ d_new.raised # ""
           THEN /\ exception' = (IF d_old.raised # "" THEN d_old.raised ELSE d_new.raised)
                /\ pc' = "raised"
                /\ UNCHANGED compare_vars
           ELSE /\ old_desc' = d_old.value
                /\ new_desc' = d_new.value
                /\ comparison' = compare_sessions(d_old.value, d_new.value)
                /\ pc' = "returned"
                /\ UNCHANGED exception
    /\ UNCHANGED <<run_old, run_new, config, old_processed, new_processed,
                   balanced_old, balanced_new>>
    /\ UNCHANGED <<balance_vars, side_vars, iqr_vars, units_vars, pre_vars, group_vars>>

RunNext == ApplyProcessing \/ BalanceRun \/ Summarise

SpecRun == RunInit /\ [][RunNext]_vars

\* the chain describe_session -> compare_sessions over the balanced
\* sessions, each call made with the metric list
DescribeCompare ==
    /\ pc = "balanced"
    /\ LET d_old == describe_session(balanced_old, KEY_METRICS)
           d_new == describe_session(balanced_new, KEY_METRICS)
       IN  /\ old_desc' = d_old
           /\ new_desc' = d_new
           /\ comparison' = compare_sessions(d_old, d_new)
    /\ pc' = "chained"
    /\ UNCHANGED run_vars
    /\ UNCHANGED <<balance_vars, side_vars, iqr_vars, units_vars, pre_vars, group_vars>>

ChainNext == ApplyProcessing \/ BalanceRun \/ DescribeCompare

SpecChain == RunInit /\ [][ChainNext]_vars

\* C14: a run on two non-empty sessions is not ended by an exception: it
\* never is in the state where a stage has raised.
C14_RunCompletes ==
    (Len(run_old.rows) > 0 /\ Len(run_new.rows) > 0) => pc # "raised"

\* C15: when a balanced session has no rows (a session without rows, or
\* stratified balancing without a shared stratum), the comparison the chain
\* gives is a table without rows.
C15_EmptyInputEmptyComparison ==
    (pc = "chained" /\ (empty(balanced_old) \/ empty(balanced_new)))
        => ~comparison.none /\ comparison.rows = <<>>

\* every row of a is a row of b: the same index label and the same values in
\* the columns of b
RowsFrom(a, b) ==
    \A i \in 1..Len(a.rows) : \E j \in 1..Len(b.rows) :
        /\ a.rows[i].idx = b.rows[j].idx
        /\ \A c \in b.columns : a.rows[i].cell[c] = b.rows[j].cell[c]

\* no row occurs twice
NoRowTwice(a) ==
    \A i \in 1..Len(a.rows) : \A j \in 1..Len(a.rows) :
        a.rows[i].idx = a.rows[j].idx => i = j

\* C18: in every run and for each session, every processed row is a row of
\* the cleaned input and every balanced row is a processed row; no row occurs
\* twice in a stage; so balanced <= processed <= raw in number.
C18_RowsOnlyNarrow ==
    /\ pc \in {"processed", "balanced", "raised"} =>
         /\ RowsFrom(old_processed, run_old) /\ NoRowTwice(old_processed)
         /\ RowsFrom(new_processed, run_new) /\ NoRowTwice(new_processed)
         /\ len(old_processed) <= len(run_old)
         /\ len(new_processed) <= len(run_new)
    /\ pc \in {"balanced", "raised"} =>
         /\ RowsFrom(balanced_old, old_processed) /\ NoRowTwice(balanced_old)
         /\ RowsFrom(balanced_new, new_processed) /\ NoRowTwice(balanced_new)
         /\ len(balanced_old) <= len(old_processed)
         /\ len(balanced_new) <= len(new_processed)

\* a session of four shots loses one to the IQR filter and two more to
\* stratified balancing against a session of one shot
C18_Witness ==
    /\ pc = "balanced"
    /\ len(run_old) = 4 /\ len(old_processed) = 3 /\ len(balanced_old) = 1
    /\ len(run_new) = 1 /\ len(balanced_new) = 1
    /\ config.balance /\ config.balance_mode = "Stratified: Club Type + Side"

=============================================================================
